---------------------------- MODULE Spec2Model ----------------------------
(***************************************************************************)
(* Flash-sale concurrency engine: one shared stock counter in a key-value  *)
(* store, decremented by a racy read-then-write purchase and by an atomic  *)
(* server-side script, behind an HTTP boundary, driven by a load harness.  *)
(***************************************************************************)
EXTENDS Integers, Sequences, FiniteSets, TLC

(* ------------------------------ bounds -------------------------------- *)

\* Largest number of concurrent requests in a run of one purchase variant.
MaxCalls == 4

\* Largest number of concurrent requests in a run that mixes request kinds,
\* has store failures, or is driven by the harness.
MaxMixCalls == 3

\* The number of attempts of a run that is followed to its end under fairness.
MaxRunCalls == 2

\* Largest number of close calls in a run of the store client.
MaxCloses == 3

\* The pool's max_connections in the runs that exhaust it.
MaxConnections == 2

\* Largest amount a reset is given.
MaxStock == 3

\* Largest number of resets in a run that mixes request kinds.
MaxResets == 2

(* --------------------------- program constants ------------------------ *)

STOCK_KEY == "product_stock"

Calls == 1..MaxCalls

VARIABLES
    store,        \* the key-value store: a function from the keys present to their strings
    kind,         \* kind[c]: the endpoint request c is sent to ("none": slot not used)
    pc,           \* pc[c]: where request c's handler stands
    seen,         \* seen[c]: the local `stock` of purchase_item_unsafe / the value get_stock returns
    outcome,      \* outcome[c]: what request c's engine call gave ("none" while it has given nothing)
    status,       \* status[c]: HTTP status of the response to request c (0: no response yet)
    engineCalls,  \* engineCalls[c]: how often request c's handler has invoked the engine operation
    baseline,     \* the amount of the last completed reset_stock (NoReset before the first)
    resets,       \* number of completed reset_stock calls
    writes,       \* number of write commands (SET, DECR) purchases have applied since the last reset
    hpc,          \* where run_attack stands ("off": no harness in this run)
    results,      \* results[c]: what make_purchase returned for attempt c (0: not settled)
    report,       \* the tuple run_attack returns
    unsafe_results, \* main: the tuple its first run_attack returned
    instance,     \* RedisClient._instance: the client's identity (0: None)
    created,      \* number of clients constructed so far
    openClients,  \* the clients constructed and not closed
    closes,       \* number of close calls that have returned
    cpc,          \* where the close call in progress stands ("idle": none in progress)
    got,          \* got[c]: the client get_redis gave request c and the closes before it (id 0: not yet)
    holders       \* the requests that hold a connection of the pool

engineVars == <<store, kind, pc, seen, outcome, status, engineCalls, baseline, resets, writes>>
harnessVars == <<hpc, results, report>>
clientVars == <<instance, created, openClients, closes, cpc, got>>
restVars == <<unsafe_results, clientVars, holders>>
vars == <<store, kind, pc, seen, outcome, status, engineCalls, baseline, resets, writes, hpc, results, report,
          unsafe_results, instance, created, openClients, closes, cpc, got, holders>>

\* An integer no reset is given within the bounds.
NoReset == 0 - 2
NoReport == [successful |-> -1, final_stock |-> -1]
\* get_redis has not yet given the request a client.
NotGot == [id |-> 0, epoch |-> 0]

(* ------------------------- the store's commands ----------------------- *)

DigitChars == <<"0", "1", "2", "3", "4", "5", "6", "7", "8", "9">>

RECURSIVE NatToStr(_)
NatToStr(k) ==
    IF k < 10 THEN <<DigitChars[k + 1]>>
    ELSE Append(NatToStr(k \div 10), DigitChars[(k % 10) + 1])

\* The string the client library sends for an integer argument of SET.
IntToStr(i) == IF i < 0 THEN <<"-">> \o NatToStr(-i) ELSE NatToStr(i)

DigitVal(ch) == CHOOSE d \in 0..9 : DigitChars[d + 1] = ch

RECURSIVE StrToNat(_)
StrToNat(s) ==
    IF Len(s) = 0 THEN 0
    ELSE StrToNat(SubSeq(s, 1, Len(s) - 1)) * 10 + DigitVal(s[Len(s)])

\* int(stock) / tonumber(stock) of a decimal string.
StrToInt(s) == IF s[1] = "-" THEN -StrToNat(Tail(s)) ELSE StrToNat(s)

\* A reply to GET: nil for an absent key, else the string stored.
Nil == [nil |-> TRUE, bulk |-> <<>>]
Bulk(s) == [nil |-> FALSE, bulk |-> s]

RedisGet(st, key) == IF key \in DOMAIN st THEN Bulk(st[key]) ELSE Nil

RedisSet(st, key, val) ==
    [k \in DOMAIN st \cup {key} |-> IF k = key THEN val ELSE st[k]]

\* DECR key: an absent key counts as 0.
RedisDecr(st, key) ==
    LET r == RedisGet(st, key)
        old == IF r.nil THEN 0 ELSE StrToInt(r.bulk)
    IN RedisSet(st, key, IntToStr(old - 1))

\* Python truth of a GET reply: None and the empty string are false.
PyTruthy(r) == ~r.nil /\ Len(r.bulk) > 0

\* Lua truth of a GET reply inside a script: only the nil reply is false.
LuaTruthy(r) == ~r.nil

(* ---------------------------- the engine ------------------------------ *)

\* `int(stock) if stock else 0`
StockOf(r) == IF PyTruthy(r) THEN StrToInt(r.bulk) ELSE 0

\* LuaScript without the stock check: it decrements whatever the key holds.
LuaScript_NoCheck(st, key) ==
    [store |-> RedisDecr(st, key), ret |-> 1, wrote |-> 1]

\* LuaScript with the check off by one: a stock of zero is sold.
LuaScript_OffByOne(st, key) ==
    LET r == RedisGet(st, key)
    IN IF LuaTruthy(r) /\ StrToInt(r.bulk) >= 0
       THEN [store |-> RedisDecr(st, key), ret |-> 1, wrote |-> 1]
       ELSE [store |-> st, ret |-> 0, wrote |-> 0]

\* LuaScript that reports a sale without the DECR.
LuaScript_NoDecr(st, key) ==
    LET r == RedisGet(st, key)
    IN IF LuaTruthy(r) /\ StrToInt(r.bulk) > 0
       THEN [store |-> st, ret |-> 1, wrote |-> 0]
       ELSE [store |-> st, ret |-> 0, wrote |-> 0]

\* The Lua script of purchase_item_safe, run by the store as one command:
\* the store after it and the integer it returns.
LuaScript(st, key) ==
    LET r == RedisGet(st, key)
    IN IF LuaTruthy(r) /\ StrToInt(r.bulk) > 0
       THEN [store |-> RedisDecr(st, key), ret |-> 1, wrote |-> 1]
       ELSE [store |-> st, ret |-> 0, wrote |-> 0]

(* --------------------------- the boundary ----------------------------- *)

\* PurchaseStatus of a handler that catches every failure of the engine call
\* and answers as for no stock.
PurchaseStatus_Merged(out) ==
    IF out = "true" THEN 200 ELSE 400

\* The status of a purchase endpoint's response, from what the engine call gave:
\* TRUE or FALSE returned, or "raised" when the call raised.
PurchaseStatus(out) ==
    IF out = "raised" THEN 500
    ELSE IF out = "false" THEN 400
    ELSE 200

BoolOutcome(b) == IF b THEN "true" ELSE "false"

\* The end of a purchase endpoint's handler: the engine call has given `out`
\* and the response goes out.
Respond(c, out) ==
    /\ pc' = [pc EXCEPT ![c] = "done"]
    /\ outcome' = [outcome EXCEPT ![c] = out]
    /\ status' = [status EXCEPT ![c] = PurchaseStatus(out)]

\* ResetStock that adds the amount to what the key holds (INCRBY for SET).
ResetStock_Incr(v) ==
    /\ store' = RedisSet(store, STOCK_KEY,
                         IntToStr(StockOf(RedisGet(store, STOCK_KEY)) + v))
    /\ baseline' = v
    /\ resets' = resets + 1
    /\ writes' = 0
    /\ UNCHANGED <<kind, pc, seen, outcome, status, engineCalls>>

\* POST /stock/reset?amount=v: reset_stock(v) is one SET.
ResetStock(v) ==
    /\ store' = RedisSet(store, STOCK_KEY, IntToStr(v))
    /\ baseline' = v
    /\ resets' = resets + 1
    /\ writes' = 0
    /\ UNCHANGED <<kind, pc, seen, outcome, status, engineCalls>>

\* POST /purchase/safe: one script execution, then the response.
SafeEval(c) ==
    /\ kind[c] = "safe" /\ pc[c] = "start"
    /\ LET res == LuaScript(store, STOCK_KEY)
       IN /\ store' = res.store
          /\ writes' = writes + res.wrote
          /\ Respond(c, BoolOutcome(res.ret # 0))
    /\ engineCalls' = [engineCalls EXCEPT ![c] = @ + 1]
    /\ UNCHANGED <<kind, seen, baseline, resets>>

\* UnsafeGet with the check off by one: a stock of zero passes.
UnsafeGet_OffByOne(c) ==
    /\ kind[c] = "unsafe" /\ pc[c] = "start"
    /\ LET stock == StockOf(RedisGet(store, STOCK_KEY))
       IN IF stock >= 0
          THEN /\ pc' = [pc EXCEPT ![c] = "sleep"]
               /\ seen' = [seen EXCEPT ![c] = stock]
               /\ UNCHANGED <<outcome, status>>
          ELSE /\ seen' = [seen EXCEPT ![c] = stock]
               /\ Respond(c, BoolOutcome(FALSE))
    /\ engineCalls' = [engineCalls EXCEPT ![c] = @ + 1]
    /\ UNCHANGED <<store, kind, baseline, resets, writes>>

\* UnsafeGet with the check one too strict: the last unit is never sold.
UnsafeGet_Strict(c) ==
    /\ kind[c] = "unsafe" /\ pc[c] = "start"
    /\ LET stock == StockOf(RedisGet(store, STOCK_KEY))
       IN IF stock > 1
          THEN /\ pc' = [pc EXCEPT ![c] = "sleep"]
               /\ seen' = [seen EXCEPT ![c] = stock]
               /\ UNCHANGED <<outcome, status>>
          ELSE /\ seen' = [seen EXCEPT ![c] = stock]
               /\ Respond(c, BoolOutcome(FALSE))
    /\ engineCalls' = [engineCalls EXCEPT ![c] = @ + 1]
    /\ UNCHANGED <<store, kind, baseline, resets, writes>>

\* POST /purchase/unsafe, up to the sleep: GET, the check, and the response
\* when the check fails.
UnsafeGet(c) ==
    /\ kind[c] = "unsafe" /\ pc[c] = "start"
    /\ LET stock == StockOf(RedisGet(store, STOCK_KEY))
       IN IF stock > 0
          THEN /\ pc' = [pc EXCEPT ![c] = "sleep"]
               /\ seen' = [seen EXCEPT ![c] = stock]
               /\ UNCHANGED <<outcome, status>>
          ELSE /\ seen' = [seen EXCEPT ![c] = stock]
               /\ Respond(c, BoolOutcome(FALSE))
    /\ engineCalls' = [engineCalls EXCEPT ![c] = @ + 1]
    /\ UNCHANGED <<store, kind, baseline, resets, writes>>

\* UnsafeSet that decrements the key at write time instead of writing the
\* value read minus one.
UnsafeSet_Decr(c) ==
    /\ kind[c] = "unsafe" /\ pc[c] = "sleep"
    /\ store' = RedisDecr(store, STOCK_KEY)
    /\ writes' = writes + 1
    /\ Respond(c, BoolOutcome(TRUE))
    /\ UNCHANGED <<kind, seen, engineCalls, baseline, resets>>

\* POST /purchase/unsafe, after the sleep: SET of the value read minus one,
\* and the response.
UnsafeSet(c) ==
    /\ kind[c] = "unsafe" /\ pc[c] = "sleep"
    /\ store' = RedisSet(store, STOCK_KEY, IntToStr(seen[c] - 1))
    /\ writes' = writes + 1
    /\ Respond(c, BoolOutcome(TRUE))
    /\ UNCHANGED <<kind, seen, engineCalls, baseline, resets>>

\* GetStock that creates the key when it is absent.
GetStock_Create(c) ==
    /\ kind[c] = "get" /\ pc[c] = "start"
    /\ seen' = [seen EXCEPT ![c] = StockOf(RedisGet(store, STOCK_KEY))]
    /\ store' = IF STOCK_KEY \in DOMAIN store THEN store
                ELSE RedisSet(store, STOCK_KEY, IntToStr(0))
    /\ pc' = [pc EXCEPT ![c] = "done"]
    /\ outcome' = [outcome EXCEPT ![c] = "value"]
    /\ status' = [status EXCEPT ![c] = 200]
    /\ engineCalls' = [engineCalls EXCEPT ![c] = @ + 1]
    /\ UNCHANGED <<kind, baseline, resets, writes>>

\* GET /stock: get_stock is one GET.
GetStock(c) ==
    /\ kind[c] = "get" /\ pc[c] = "start"
    /\ seen' = [seen EXCEPT ![c] = StockOf(RedisGet(store, STOCK_KEY))]
    /\ pc' = [pc EXCEPT ![c] = "done"]
    /\ outcome' = [outcome EXCEPT ![c] = "value"]
    /\ status' = [status EXCEPT ![c] = 200]
    /\ engineCalls' = [engineCalls EXCEPT ![c] = @ + 1]
    /\ UNCHANGED <<store, kind, baseline, resets, writes>>

(* ------------------------- store failures ----------------------------- *)

\* purchase_item_unsafe's GET raises (connection failure or timeout); nothing
\* catches it, and the request is answered with a server error.
GetFails(c) ==
    /\ kind[c] = "unsafe" /\ pc[c] = "start"
    /\ Respond(c, "raised")
    /\ engineCalls' = [engineCalls EXCEPT ![c] = @ + 1]
    /\ UNCHANGED <<store, kind, seen, baseline, resets, writes>>

\* SetFails in an engine that swallows the failure of the SET and goes on to
\* return True.
SetFails_Swallowed(c) ==
    /\ kind[c] = "unsafe" /\ pc[c] = "sleep"
    /\ \E applied \in BOOLEAN :
          /\ store' = IF applied THEN RedisSet(store, STOCK_KEY, IntToStr(seen[c] - 1))
                      ELSE store
          /\ writes' = IF applied THEN writes + 1 ELSE writes
    /\ Respond(c, BoolOutcome(TRUE))
    /\ UNCHANGED <<kind, seen, engineCalls, baseline, resets>>

\* purchase_item_unsafe's SET raises: the command never reached the store, or
\* the store applied it and the reply timed out.
SetFails(c) ==
    /\ kind[c] = "unsafe" /\ pc[c] = "sleep"
    /\ \E applied \in BOOLEAN :
          /\ store' = IF applied THEN RedisSet(store, STOCK_KEY, IntToStr(seen[c] - 1))
                      ELSE store
          /\ writes' = IF applied THEN writes + 1 ELSE writes
    /\ Respond(c, "raised")
    /\ UNCHANGED <<kind, seen, engineCalls, baseline, resets>>

\* purchase_item_safe's script execution raises: the script never ran, or it
\* ran and the reply timed out.
EvalFails(c) ==
    /\ kind[c] = "safe" /\ pc[c] = "start"
    /\ \E applied \in BOOLEAN :
          LET res == LuaScript(store, STOCK_KEY)
          IN /\ store' = IF applied THEN res.store ELSE store
             /\ writes' = IF applied THEN writes + res.wrote ELSE writes
    /\ Respond(c, "raised")
    /\ engineCalls' = [engineCalls EXCEPT ![c] = @ + 1]
    /\ UNCHANGED <<kind, seen, baseline, resets>>

(* ---------------------------- the harness ----------------------------- *)

\* results.count(200)
CountOf(res, code) == Cardinality({ c \in Calls : res[c] = code })

\* run_attack: the reset request, awaited before anything else.
HarnessReset(s) ==
    /\ hpc = "reset"
    /\ ResetStock(s)
    /\ hpc' = "gather"
    /\ UNCHANGED <<results, report>>

\* make_purchase: the response arrives and its status is returned.
MakePurchaseReturns(c) ==
    /\ hpc = "gather" /\ kind[c] # "none" /\ results[c] = 0
    /\ pc[c] = "done"
    /\ results' = [results EXCEPT ![c] = status[c]]
    /\ UNCHANGED <<hpc, report>>
    /\ UNCHANGED engineVars

\* MakePurchaseExcept in a harness that tries the request again on an
\* exception and returns no status for it.
MakePurchaseExcept_Retry(c) ==
    /\ hpc = "gather" /\ kind[c] # "none" /\ results[c] = 0
    /\ \E delivered \in BOOLEAN :
          pc' = IF pc[c] = "start" /\ ~delivered
                THEN [pc EXCEPT ![c] = "dropped"] ELSE pc
    /\ UNCHANGED <<hpc, report, results>>
    /\ UNCHANGED <<store, kind, seen, outcome, status, engineCalls, baseline, resets, writes>>

\* make_purchase: the request raises on the client (no connection, timeout)
\* and 500 is returned. The server may never have got the request; if it
\* did, its handler goes on.
MakePurchaseExcept(c) ==
    /\ hpc = "gather" /\ kind[c] # "none" /\ results[c] = 0
    /\ results' = [results EXCEPT ![c] = 500]
    /\ \E delivered \in BOOLEAN :
          pc' = IF pc[c] = "start" /\ ~delivered
                THEN [pc EXCEPT ![c] = "dropped"] ELSE pc
    /\ UNCHANGED <<hpc, report>>
    /\ UNCHANGED <<store, kind, seen, outcome, status, engineCalls, baseline, resets, writes>>

\* RunAttackReturns that does not wait for every attempt (the gather is not
\* awaited to its end).
RunAttackReturns_Early ==
    /\ hpc = "gather"
    /\ report' = [successful |-> CountOf(results, 200),
                  final_stock |-> StockOf(RedisGet(store, STOCK_KEY))]
    /\ hpc' = "done"
    /\ UNCHANGED results
    /\ UNCHANGED engineVars

\* run_attack after gather: the stock query, the count of 200s, the return.
RunAttackReturns ==
    /\ hpc = "gather"
    /\ \A c \in Calls : kind[c] # "none" => results[c] # 0
    /\ report' = [successful |-> CountOf(results, 200),
                  final_stock |-> StockOf(RedisGet(store, STOCK_KEY))]
    /\ hpc' = "done"
    /\ UNCHANGED results
    /\ UNCHANGED engineVars

(* ----------------------------- workloads ------------------------------ *)

KindRank(k) == CASE k = "safe" -> 1 [] k = "unsafe" -> 2 [] k = "get" -> 3 [] OTHER -> 4

\* The workloads of n requests of the given kinds; requests of one kind are
\* interchangeable, so the kinds are listed in one fixed order.
Workloads(kinds, maxN) ==
    { w \in [Calls -> kinds \cup {"none"}] :
        /\ \A c \in Calls : w[c] # "none" => c <= maxN
        /\ \A c \in Calls, d \in Calls : c < d => KindRank(w[c]) <= KindRank(w[d]) }

\* What the store holds before a run: a fresh store has no key; an earlier
\* run leaves the string of an integer.
PriorStores == {<<>>} \cup { RedisSet(<<>>, STOCK_KEY, IntToStr(v)) : v \in 0..MaxStock }

InitWith(kinds, maxN, stores, h) ==
    /\ store \in stores
    /\ kind \in Workloads(kinds, maxN)
    /\ pc = [c \in Calls |-> IF kind[c] = "none" THEN "unused" ELSE "start"]
    /\ seen = [c \in Calls |-> 0]
    /\ outcome = [c \in Calls |-> "none"]
    /\ status = [c \in Calls |-> 0]
    /\ engineCalls = [c \in Calls |-> 0]
    /\ baseline = NoReset
    /\ resets = 0
    /\ writes = 0
    /\ hpc = h
    /\ results = [c \in Calls |-> 0]
    /\ report = NoReport
    /\ unsafe_results = NoReport
    /\ instance = 0
    /\ created = 0
    /\ openClients = {}
    /\ closes = 0
    /\ cpc = "idle"
    /\ got = [c \in Calls |-> NotGot]
    /\ holders = {}

(* --------- reset_stock(s), then n concurrent safe purchases ----------- *)

InitSafe == InitWith({"safe"}, MaxCalls, PriorStores, "off")

NextSafe ==
    \/ resets = 0 /\ UNCHANGED <<harnessVars, restVars>> /\ \E s \in 0..MaxStock : ResetStock(s)
    \/ resets = 1 /\ UNCHANGED <<harnessVars, restVars>> /\ \E c \in Calls : SafeEval(c)

SpecSafe == InitSafe /\ [][NextSafe]_vars

(* ------------------------ derived quantities -------------------------- *)

Started == { c \in Calls : kind[c] # "none" }
Purchases == { c \in Calls : kind[c] \in {"safe", "unsafe"} }
AllReturned == \A c \in Started : pc[c] = "done"
Successes == Cardinality({ c \in Purchases : status[c] = 200 })

\* The integer the counter holds: the i whose string the key holds; an
\* absent key holds none.
HasValue(i) == STOCK_KEY \in DOMAIN store /\ store[STOCK_KEY] = IntToStr(i)
Absent == STOCK_KEY \notin DOMAIN store

Min(a, b) == IF a < b THEN a ELSE b
Max(a, b) == IF a > b THEN a ELSE b


\* The integers the counter can hold within the bounds.
ValueRange == (0 - MaxCalls - 2)..(MaxStock + 1)

\* The counter's integer value (the key is present).
Counter == CHOOSE i \in ValueRange : HasValue(i)

NumStarted == Cardinality(Started)

(* --------- reset_stock(s), then n concurrent unsafe purchases --------- *)

InitUnsafe == InitWith({"unsafe"}, MaxCalls, PriorStores, "off")

NextUnsafe ==
    \/ resets = 0 /\ UNCHANGED <<harnessVars, restVars>> /\ \E s \in 0..MaxStock : ResetStock(s)
    \/ resets = 1 /\ UNCHANGED <<harnessVars, restVars>> /\ \E c \in Calls : UnsafeGet(c)
    \/ resets = 1 /\ UNCHANGED <<harnessVars, restVars>> /\ \E c \in Calls : UnsafeSet(c)

SpecUnsafe == InitUnsafe /\ [][NextUnsafe]_vars

(* ------- any requests and resets, concurrently, on a fresh store ------ *)

\* The amounts a reset is given: the endpoint takes any integer.
ResetAmounts == (0 - 1)..MaxStock

Init == InitWith({"safe", "unsafe", "get"}, MaxMixCalls, {<<>>}, "off")

Next ==
    \/ resets < MaxResets /\ UNCHANGED <<harnessVars, restVars>> /\ \E v \in ResetAmounts : ResetStock(v)
    \/ UNCHANGED <<harnessVars, restVars>> /\ \E c \in Calls : UnsafeGet(c)
    \/ UNCHANGED <<harnessVars, restVars>> /\ \E c \in Calls : UnsafeSet(c)
    \/ UNCHANGED <<harnessVars, restVars>> /\ \E c \in Calls : SafeEval(c)
    \/ UNCHANGED <<harnessVars, restVars>> /\ \E c \in Calls : GetStock(c)

Spec == Init /\ [][Next]_vars

(* ------ reset_stock(s), then purchases of both kinds, store failing ---- *)

InitFault == InitWith({"safe", "unsafe"}, MaxMixCalls, PriorStores, "off")

NextFault ==
    \/ resets = 0 /\ UNCHANGED <<harnessVars, restVars>> /\ \E s \in 0..MaxStock : ResetStock(s)
    \/ resets = 1 /\ UNCHANGED <<harnessVars, restVars>> /\ \E c \in Calls : UnsafeGet(c)
    \/ resets = 1 /\ UNCHANGED <<harnessVars, restVars>> /\ \E c \in Calls : UnsafeSet(c)
    \/ resets = 1 /\ UNCHANGED <<harnessVars, restVars>> /\ \E c \in Calls : SafeEval(c)
    \/ resets = 1 /\ UNCHANGED <<harnessVars, restVars>> /\ \E c \in Calls : GetFails(c)
    \/ resets = 1 /\ UNCHANGED <<harnessVars, restVars>> /\ \E c \in Calls : SetFails(c)
    \/ resets = 1 /\ UNCHANGED <<harnessVars, restVars>> /\ \E c \in Calls : EvalFails(c)

SpecFault == InitFault /\ [][NextFault]_vars

(* --------- run_attack against one endpoint, anything may fail --------- *)

InitHarness ==
    \E k \in {"safe", "unsafe"} : InitWith({k}, MaxMixCalls, PriorStores, "reset")

Dispatched == hpc \in {"gather", "done"}

NextHarness ==
    \/ UNCHANGED restVars /\ \E s \in 0..MaxStock : HarnessReset(s)
    \/ Dispatched /\ UNCHANGED <<harnessVars, restVars>> /\ \E c \in Calls : UnsafeGet(c)
    \/ Dispatched /\ UNCHANGED <<harnessVars, restVars>> /\ \E c \in Calls : UnsafeSet(c)
    \/ Dispatched /\ UNCHANGED <<harnessVars, restVars>> /\ \E c \in Calls : SafeEval(c)
    \/ Dispatched /\ UNCHANGED <<harnessVars, restVars>> /\ \E c \in Calls : GetFails(c)
    \/ Dispatched /\ UNCHANGED <<harnessVars, restVars>> /\ \E c \in Calls : SetFails(c)
    \/ Dispatched /\ UNCHANGED <<harnessVars, restVars>> /\ \E c \in Calls : EvalFails(c)
    \/ UNCHANGED restVars /\ \E c \in Calls : MakePurchaseReturns(c)
    \/ UNCHANGED restVars /\ \E c \in Calls : MakePurchaseExcept(c)
    \/ UNCHANGED restVars /\ RunAttackReturns

SpecHarness == InitHarness /\ [][NextHarness]_vars

(* ---- run_attack to its end: a round trip completes or fails, fairly ---- *)

\* run_attack's reset request does not succeed. The reset endpoint answers
\* with a server error, which run_attack does not look at, or the request
\* raises on the client and run_attack raises with it. Either way the store
\* may or may not have been set.
HarnessResetFails ==
    /\ hpc = "reset"
    /\ \E applied \in BOOLEAN :
          IF applied THEN \E s \in 0..MaxStock : ResetStock(s)
          ELSE UNCHANGED engineVars
    /\ \E raised \in BOOLEAN : hpc' = IF raised THEN "raised" ELSE "gather"
    /\ UNCHANGED <<results, report>>

\* run_attack's stock query fails after the gather: the request raises, or
\* the answer is a server error with no current_stock in it. run_attack
\* raises and returns no result.
RunAttackRaises ==
    /\ hpc = "gather"
    /\ \A c \in Calls : kind[c] # "none" => results[c] # 0
    /\ hpc' = "raised"
    /\ UNCHANGED <<results, report>>
    /\ UNCHANGED engineVars

\* One step of request c's handler: its store call completes or fails.
HandlerStep(c) ==
    /\ Dispatched /\ UNCHANGED <<harnessVars, restVars>>
    /\ \/ UnsafeGet(c) \/ UnsafeSet(c) \/ SafeEval(c)
       \/ GetFails(c) \/ SetFails(c) \/ EvalFails(c)

\* Attempt c settles: with the response's status, or with 500 on an exception.
AttemptSettles(c) ==
    /\ UNCHANGED restVars
    /\ MakePurchaseReturns(c) \/ MakePurchaseExcept(c)

\* run_attack's own requests: the reset and, after the gather, the stock query.
RunAttackStep ==
    /\ UNCHANGED restVars
    /\ \/ \E s \in 0..MaxStock : HarnessReset(s)
       \/ HarnessResetFails
       \/ RunAttackReturns
       \/ RunAttackRaises

NextRun ==
    \/ \E c \in Calls : HandlerStep(c)
    \/ \E c \in Calls : AttemptSettles(c)
    \/ RunAttackStep

\* run_attack with up to MaxRunCalls attempts against one endpoint.
InitRun ==
    \E k \in {"safe", "unsafe"} : InitWith({k}, MaxRunCalls, PriorStores, "reset")

\* The event loop runs every coroutine that can run, and every request gets
\* its response or its exception (aiohttp's total timeout, redis' socket
\* timeout).
SpecRun ==
    /\ InitRun /\ [][NextRun]_vars
    /\ \A c \in Calls : WF_vars(HandlerStep(c))
    /\ \A c \in Calls : WF_vars(AttemptSettles(c))
    /\ WF_vars(RunAttackStep)

(* ------------------- the store client: RedisClient -------------------- *)

\* get_instance that constructs a client on every call.
GetInstance_Unchecked(c) ==
    /\ kind[c] # "none" /\ got[c].id = 0
    /\ created' = created + 1
    /\ instance' = created + 1
    /\ openClients' = openClients \cup {created + 1}
    /\ got' = [got EXCEPT ![c] = [id |-> instance', epoch |-> closes]]
    /\ UNCHANGED <<closes, cpc>>

\* get_redis for request c: get_instance constructs a client when _instance
\* is None and returns _instance. It has no await inside, so the event loop
\* runs it as one step.
GetInstance(c) ==
    /\ kind[c] # "none" /\ got[c].id = 0
    /\ IF instance = 0
       THEN /\ created' = created + 1
            /\ instance' = created + 1
            /\ openClients' = openClients \cup {created + 1}
       ELSE UNCHANGED <<created, instance, openClients>>
    /\ got' = [got EXCEPT ![c] = [id |-> instance', epoch |-> closes]]
    /\ UNCHANGED <<closes, cpc>>

\* close finds an instance and awaits its close().
CloseBegins ==
    /\ cpc = "idle" /\ closes < MaxCloses
    /\ instance # 0
    /\ cpc' = "closing"
    /\ UNCHANGED <<instance, created, openClients, closes, got>>

\* The awaited close() is over: the client is closed, _instance becomes None
\* and close returns.
CloseEnds ==
    /\ cpc = "closing"
    /\ openClients' = openClients \ {instance}
    /\ instance' = 0
    /\ closes' = closes + 1
    /\ cpc' = "idle"
    /\ UNCHANGED <<created, got>>

\* close finds _instance None and returns.
CloseNoop ==
    /\ cpc = "idle" /\ closes < MaxCloses
    /\ instance = 0
    /\ closes' = closes + 1
    /\ UNCHANGED <<instance, created, openClients, cpc, got>>

\* Requests ask for the client in any order; the application closes it, one
\* close call at a time.
InitClient == InitWith({"get"}, MaxCalls, {<<>>}, "off")

NextClient ==
    \/ UNCHANGED <<engineVars, harnessVars, unsafe_results, holders>> /\ \E c \in Calls : GetInstance(c)
    \/ UNCHANGED <<engineVars, harnessVars, unsafe_results, holders>> /\ CloseBegins
    \/ UNCHANGED <<engineVars, harnessVars, unsafe_results, holders>> /\ CloseEnds
    \/ UNCHANGED <<engineVars, harnessVars, unsafe_results, holders>> /\ CloseNoop

SpecClient == InitClient /\ [][NextClient]_vars

(* ------------- the client's connection pool under load --------------- *)

\* Request c's handler is about to send a store command.
NeedsConnection(c) ==
    /\ kind[c] \in {"safe", "unsafe"} /\ pc[c] \in {"start", "sleep"}
    /\ c \notin holders

\* The command of request c takes a connection of the pool: an idle one, or
\* a new one while fewer than max_connections are in use.
Acquire(c) ==
    /\ NeedsConnection(c)
    /\ Cardinality(holders) < MaxConnections
    /\ holders' = holders \cup {c}
    /\ UNCHANGED engineVars

\* The command of request c finds max_connections connections in use: the
\* pool of redis.Redis(max_connections=...) raises a connection error, the
\* command is not sent and the request is answered with a server error.
PoolExhausted(c) ==
    /\ NeedsConnection(c)
    /\ Cardinality(holders) >= MaxConnections
    /\ Respond(c, "raised")
    /\ engineCalls' = [engineCalls EXCEPT ![c] = IF pc[c] = "start" THEN @ + 1 ELSE @]
    /\ UNCHANGED <<store, kind, seen, baseline, resets, writes>>
    /\ UNCHANGED holders

\* The command of request c runs on its connection, which then goes back to
\* the pool.
PooledCommand(c) ==
    /\ c \in holders
    /\ UnsafeGet(c) \/ UnsafeSet(c) \/ SafeEval(c)
    /\ holders' = holders \ {c}

InitPool == InitWith({"safe", "unsafe"}, MaxMixCalls, {<<>>}, "off")

NextPool ==
    \/ resets = 0 /\ UNCHANGED <<harnessVars, restVars>> /\ \E s \in 0..MaxStock : ResetStock(s)
    \/ resets = 1 /\ UNCHANGED <<harnessVars, unsafe_results, clientVars>> /\ \E c \in Calls : Acquire(c)
    \/ resets = 1 /\ UNCHANGED <<harnessVars, unsafe_results, clientVars>> /\ \E c \in Calls : PoolExhausted(c)
    \/ resets = 1 /\ UNCHANGED <<harnessVars, unsafe_results, clientVars>> /\ \E c \in Calls : PooledCommand(c)

SpecPool == InitPool /\ [][NextPool]_vars

(* ------- main: run_attack("unsafe"), a pause, run_attack("safe") ------- *)

\* The endpoint of the run main is in: the first run has returned or not.
CurrentEndpoint == IF unsafe_results = NoReport THEN "unsafe" ELSE "safe"

\* The attempts of the run main is in.
CurrentAttempts == { c \in Calls : kind[c] = CurrentEndpoint }

\* Both runs reset the stock to INITIAL_STOCK.
MainReset ==
    /\ hpc = "reset"
    /\ \E s \in 0..MaxStock : (resets = 0 \/ s = baseline) /\ HarnessReset(s)
    /\ UNCHANGED restVars

\* The server handles a request once its run has dispatched it, and goes on
\* handling it whatever the harness does next.
MainDispatched(c) ==
    \/ kind[c] = "unsafe" /\ resets >= 1
    \/ kind[c] = "safe" /\ resets = 2

MainHandlerStep(c) ==
    /\ MainDispatched(c) /\ UNCHANGED <<harnessVars, restVars>>
    /\ UnsafeGet(c) \/ UnsafeSet(c) \/ SafeEval(c)

MainAttemptSettles(c) ==
    /\ c \in CurrentAttempts
    /\ MakePurchaseReturns(c) \/ MakePurchaseExcept(c)
    /\ UNCHANGED restVars

\* run_attack returns to main: the first run's tuple is kept and, after the
\* pause, the second run starts with its reset; the second run's tuple ends
\* main.
MainRunReturns ==
    /\ hpc = "gather"
    /\ \A c \in CurrentAttempts : results[c] # 0
    /\ LET r == [successful |-> Cardinality({ c \in CurrentAttempts : results[c] = 200 }),
                 final_stock |-> StockOf(RedisGet(store, STOCK_KEY))]
       IN IF CurrentEndpoint = "unsafe"
          THEN unsafe_results' = r /\ hpc' = "reset" /\ UNCHANGED report
          ELSE report' = r /\ hpc' = "done" /\ UNCHANGED unsafe_results
    /\ UNCHANGED results
    /\ UNCHANGED engineVars
    /\ UNCHANGED <<clientVars, holders>>

InitMain ==
    /\ InitWith({"safe", "unsafe"}, MaxMixCalls, PriorStores, "reset")
    /\ \E c \in Calls : kind[c] = "unsafe"
    /\ \E c \in Calls : kind[c] = "safe"

NextMain ==
    \/ MainReset
    \/ \E c \in Calls : MainHandlerStep(c)
    \/ \E c \in Calls : MainAttemptSettles(c)
    \/ MainRunReturns

SpecMain == InitMain /\ [][NextMain]_vars

\* Request c takes its last step in this step.
Finishes(c) == pc[c] # "done" /\ pc'[c] = "done"

\* The counter is sold out for every call that has yet to read it: it holds
\* zero or is absent, and no unsafe call holds a value read earlier.
SoldOut == (Absent \/ HasValue(0)) /\ \A c \in Calls : pc[c] # "sleep"

(* ------------------------------ claims -------------------------------- *)

\* C5 (Spec): every reset_stock(v) leaves the counter at exactly v whatever
\* the key held before (also nothing, also after another reset), and a
\* get_stock that runs before any purchase has written returns v.
C5_ResetIdempotence ==
    [][ /\ resets' = resets + 1 => (~Absent' /\ Counter' = baseline')
        /\ \A c \in Calls :
              (kind[c] = "get" /\ Finishes(c) /\ resets >= 1 /\ writes = 0)
                  => seen'[c] = baseline ]_vars

\* C5 witness: two resets in a row, then a get_stock that returned the amount.
C5_Witness ==
    /\ resets = 2 /\ writes = 0 /\ baseline >= 1 /\ HasValue(baseline)
    /\ \A c \in Purchases : pc[c] = "start"
    /\ \E c \in Calls : kind[c] = "get" /\ pc[c] = "done" /\ seen[c] = baseline

\* C6 (Spec): while the counter is 0 or absent and no call holds a value read
\* earlier, every purchase step of either variant ends its call with the
\* out-of-stock response, adds no success, and neither writes nor changes
\* the counter; only a reset ends that.
C6_SoldOut ==
    [][ (SoldOut /\ resets' = resets) =>
          /\ store' = store
          /\ writes' = writes
          /\ Successes' = Successes
          /\ \A c \in Purchases :
                pc'[c] # pc[c] => (pc'[c] = "done" /\ status'[c] = 400) ]_vars

\* C6 witness: at a counter of zero a safe and an unsafe call have both been
\* refused, every call has returned, none succeeded, nothing was written.
C6_Witness ==
    /\ HasValue(0) /\ writes = 0 /\ Successes = 0 /\ AllReturned
    /\ \E c \in Calls : kind[c] = "safe" /\ status[c] = 400
    /\ \E c \in Calls : kind[c] = "unsafe" /\ status[c] = 400

\* C7 (SpecFault): at both purchase endpoints a call that gave False is
\* answered 400, a call that raised on the store is answered with a 5xx, a
\* call that gave True is answered 200; there is no response before the
\* engine call has ended, and the engine is invoked exactly once per request.
C7_BoundaryStatuses ==
    \A c \in Purchases :
        /\ engineCalls[c] <= 1
        /\ pc[c] # "done" => (status[c] = 0 /\ outcome[c] = "none")
        /\ pc[c] = "done" =>
              /\ engineCalls[c] = 1
              /\ outcome[c] \in {"true", "false", "raised"}
              /\ outcome[c] = "false" => status[c] = 400
              /\ outcome[c] = "raised" => status[c] \in 500..599
              /\ outcome[c] = "true" => status[c] = 200

\* C7 witness: three requests, both endpoints among them, have been answered
\* 200, 400 and 500.
C7_Witness ==
    /\ \E a \in Calls, b \in Calls, c \in Calls :
          /\ outcome[a] = "true" /\ status[a] = 200
          /\ outcome[b] = "false" /\ status[b] = 400
          /\ outcome[c] = "raised" /\ status[c] = 500
    /\ \E c \in Calls : kind[c] = "safe" /\ pc[c] = "done"
    /\ \E c \in Calls : kind[c] = "unsafe" /\ pc[c] = "done"

\* C8 (SpecHarness): an attempt that ended in an error is tracked apart from
\* the out-of-stock attempts in the result of the run: the attempts the
\* result does not count as successful are the out-of-stock ones.
C8_ErrorsTrackedSeparately ==
    hpc = "done" =>
        NumStarted - report.successful = CountOf(results, 400)

\* C9 (Spec): a get_stock step returns the integer the counter holds, 0 when
\* the key is absent, and leaves the store as it was, absent key included,
\* also between the steps of purchases.
C9_GetStockPure ==
    [][ \A c \in Calls :
          (kind[c] = "get" /\ Finishes(c)) =>
              /\ store' = store
              /\ writes' = writes
              /\ Absent => (seen'[c] = 0 /\ Absent')
              /\ ~Absent => seen'[c] = Counter ]_vars

\* C9 witness: a get_stock returned 0 for the absent key, which is still
\* absent, while an unsafe purchase's call has run.
C9_Witness ==
    /\ Absent
    /\ \E c \in Calls : kind[c] = "get" /\ pc[c] = "done" /\ seen[c] = 0
    /\ \E c \in Calls : kind[c] = "unsafe" /\ pc[c] = "done"
    /\ \E c \in Calls : kind[c] = "get" /\ pc[c] = "start"


\* C1 (SpecSafe): after reset_stock(s) and n concurrent purchase_item_safe
\* calls, once every call has returned, exactly min(n, s) calls returned True
\* and the counter holds exactly max(s - n, 0).
C1_SafeExactness ==
    (resets = 1 /\ AllReturned) =>
        /\ Successes = Min(NumStarted, baseline)
        /\ HasValue(Max(baseline - NumStarted, 0))

\* C1 witness: more calls than stock, at least two units, every call returned.
C1_Witness ==
    /\ resets = 1 /\ AllReturned
    /\ baseline >= 2 /\ NumStarted > baseline
    /\ Successes = baseline

\* C2 (SpecSafe): after reset_stock(s), s >= 0, the counter is never negative
\* in any state of a run of purchase_item_safe calls.
C2_SafeNeverNegative ==
    resets = 1 => (~Absent /\ Counter >= 0)

\* C2 witness: the counter stands at zero and a call has been refused.
C2_Witness ==
    /\ resets = 1 /\ baseline >= 1 /\ HasValue(0)
    /\ \E c \in Calls : kind[c] = "safe" /\ status[c] = 400

\* C10 (SpecSafe): after reset_stock(s), counter + successful safe purchases
\* = s in every state; a step in which a call succeeds lowers the counter by
\* exactly one, a step in which a call fails leaves it unchanged.
C10_SafeConservation ==
    [][ resets' = 1 =>
          /\ Counter' + Successes' = baseline'
          /\ (resets = 1 /\ Successes' = Successes + 1) => Counter' = Counter - 1
          /\ (resets = 1 /\ Successes' = Successes) => Counter' = Counter ]_vars

\* C10 witness: two purchases done of a stock of three, one unit left, and a
\* third call still to run.
C10_Witness ==
    /\ resets = 1 /\ baseline = 3 /\ Successes = 2 /\ HasValue(1)
    /\ \E c \in Calls : kind[c] = "safe" /\ pc[c] = "start"

\* C3 (SpecUnsafe): purchase_item_unsafe can oversell. More calls return True
\* than the stock held only when there were more calls than stock, the stock
\* was at least one, and two successful calls read the same value.
C3_OversellOnlyByRace ==
    (resets = 1 /\ Successes > baseline) =>
        /\ NumStarted > baseline
        /\ baseline >= 1
        /\ \E c \in Calls, d \in Calls :
              c # d /\ status[c] = 200 /\ status[d] = 200 /\ seen[c] = seen[d]

\* C3 witness: every call has returned and more of them returned True than
\* the stock held.
C3_Witness ==
    /\ resets = 1 /\ AllReturned
    /\ baseline >= 1 /\ NumStarted > baseline
    /\ Successes > baseline

\* C4 as amended (SpecUnsafe): the counter is never negative, whatever the
\* order of the writes; every purchase_item_unsafe SET writes a value >= 0.
C4_UnsafeNeverNegative ==
    resets = 1 =>
        /\ ~Absent /\ Counter >= 0
        /\ \A c \in Calls : pc[c] = "sleep" => seen[c] - 1 >= 0

\* C4 witness: an oversold run has ended and the counter stands at zero.
C4_Witness ==
    /\ resets = 1 /\ AllReturned
    /\ Successes > baseline /\ HasValue(0)

\* C4 as stated: a write ordering takes the counter below zero. The counter
\* can only get there by a SET; so where the counter already stands at zero
\* and a call that read a positive value still has its SET to do, that SET
\* can commit a value below zero.
C4_Original ==
    (resets = 1 /\ HasValue(0) /\ \E c \in Calls : pc[c] = "sleep") =>
        ENABLED (\E c \in Calls : UnsafeSet(c) /\ StrToInt(store'[STOCK_KEY]) < 0)


\* C11 (SpecUnsafe): purchase_item_unsafe's SET commits the value the call
\* read minus one, whatever the counter holds at write time; and a run ends
\* with final stock > initial stock - successes only when two successful
\* calls read the same value (a lost update).
C11_StaleWrite ==
    [][ /\ \A c \in Calls :
              (pc[c] = "sleep" /\ pc'[c] = "done") => Counter' = seen[c] - 1
        /\ (resets' = 1 /\ AllReturned' /\ Counter' > baseline' - Successes') =>
              \E c \in Calls, d \in Calls :
                  c # d /\ status'[c] = 200 /\ status'[d] = 200 /\ seen'[c] = seen'[d] ]_vars

\* C11 witness: every call has returned; two successful calls read the same
\* value and the final stock is above initial stock - successes (i); and a
\* successful call wrote a value below what the counter holds now, so a
\* later SET raised the counter (ii).
C11_Witness ==
    /\ resets = 1 /\ AllReturned
    /\ Counter > baseline - Successes
    /\ \E c \in Calls, d \in Calls :
          c # d /\ status[c] = 200 /\ status[d] = 200 /\ seen[c] = seen[d]
    /\ \E c \in Calls : status[c] = 200 /\ seen[c] - 1 < Counter

\* C16 (SpecUnsafe): the unsafe variant never undersells. Once every call
\* has returned, successes >= min(n, s) and final stock + successes >= s;
\* and a call is refused only after at least s other calls have read a
\* positive value.
C16_NeverUndersells ==
    resets = 1 =>
        /\ AllReturned =>
              /\ Successes >= Min(NumStarted, baseline)
              /\ Counter + Successes >= baseline
        /\ \A c \in Calls :
              status[c] = 400 =>
                  Cardinality({ d \in Calls \ {c} : seen[d] > 0 }) >= baseline

\* C16 witness: more calls than stock, every call returned, some refused,
\* and exactly the stock was sold.
C16_Witness ==
    /\ resets = 1 /\ AllReturned
    /\ baseline >= 2 /\ NumStarted > baseline
    /\ Successes = baseline /\ HasValue(0)
    /\ \E c \in Calls : status[c] = 400

\* C17 (SpecFault): after reset_stock(s), s >= 0, under any mix of safe and
\* unsafe purchases, the counter v satisfies 0 <= v <= s in every state;
\* every value an unsafe call has yet to write is >= 0 (so the script, too,
\* only ever decrements a value > 0).
C17_CounterRange ==
    resets = 1 =>
        /\ ~Absent
        /\ Counter >= 0 /\ Counter <= baseline
        /\ \A c \in Calls :
              pc[c] = "sleep" => (seen[c] - 1 >= 0 /\ seen[c] <= baseline)

\* C17 witness: a safe and an unsafe purchase have both succeeded, a call
\* has been refused, and the counter stands at zero.
C17_Witness ==
    /\ resets = 1 /\ HasValue(0)
    /\ \E c \in Calls : kind[c] = "safe" /\ status[c] = 200
    /\ \E c \in Calls : kind[c] = "unsafe" /\ status[c] = 200
    /\ \E c \in Calls : status[c] = 400

\* C13 as amended (SpecFault): a call that has ended stays ended (no retry)
\* and invokes the engine once; a store failure ends the call with the error
\* response, never the out-of-stock one; a call whose GET fails leaves the
\* counter unchanged; a call whose script execution fails leaves it unchanged
\* or lowered by exactly one, never below zero; a call returns True from the
\* unsafe variant only when its SET was applied.
C13_FailureSemantics ==
    [][ \A c \in Purchases :
          /\ pc[c] = "done" =>
                (pc'[c] = "done" /\ outcome'[c] = outcome[c] /\ status'[c] = status[c])
          /\ engineCalls'[c] <= 1
          /\ (outcome[c] = "none" /\ outcome'[c] = "raised") =>
                /\ status'[c] = 500
                /\ writes' <= writes + 1
                /\ (kind[c] = "unsafe" /\ pc[c] = "start") => store' = store
                /\ kind[c] = "safe" =>
                      (Counter' \in {Counter, Counter - 1} /\ Counter' >= 0)
          /\ (pc[c] = "sleep" /\ outcome'[c] = "true") =>
                Counter' = seen[c] - 1 ]_vars

\* C13 witness: a script execution has failed after the script ran (the
\* counter is one lower, no call succeeded), a GET has failed, and a SET has
\* failed.
C13_Witness ==
    /\ resets = 1 /\ baseline >= 1 /\ Successes = 0
    /\ HasValue(baseline - 1)
    /\ \E c \in Calls : kind[c] = "safe" /\ outcome[c] = "raised"
    /\ \E c \in Calls : kind[c] = "unsafe" /\ outcome[c] = "raised" /\ seen[c] = 0
    /\ \E c \in Calls : kind[c] = "unsafe" /\ outcome[c] = "raised" /\ seen[c] > 0

\* C13 as stated: a call whose first store call (GET or script execution)
\* fails leaves the counter unchanged.
C13_Original ==
    [][ \A c \in Purchases :
          (pc[c] = "start" /\ outcome'[c] = "raised") => store' = store ]_vars


\* What holds of run_attack's ordering in a state.
HarnessOrdered ==
    /\ hpc = "reset" =>
          /\ resets = 0
          /\ \A c \in Calls : pc[c] \in {"start", "unused"} /\ results[c] = 0
                                /\ engineCalls[c] = 0
    /\ hpc # "reset" => resets = 1
    /\ \A c \in Calls : kind[c] = "none" => (results[c] = 0 /\ pc[c] = "unused")
    /\ hpc = "done" =>
          /\ \A c \in Started :
                /\ results[c] \in {200, 400, 500}
                /\ results[c] \in {200, 400} => (pc[c] = "done" /\ status[c] = results[c])
          /\ report.successful = Cardinality({ c \in Started : results[c] = 200 })
    /\ hpc # "done" => report = NoReport

C14_Termination ==
    /\ (hpc = "gather") ~> (\A c \in Started : results[c] \in {200, 400, 500})
    /\ <>(hpc \in {"done", "raised"})
    /\ [](hpc = "done" => report # NoReport)
    /\ []((hpc = "raised" /\ report = NoReport) => \A c \in Started : results[c] = 0 \/ results[c] \in {200, 400, 500})

\* C14 witness: run_attack has ended by raising at its stock query after all
\* attempts settled, one of them with 500 on a client-side exception while
\* its request was never answered, another sold a unit.
C14_Witness ==
    /\ hpc = "raised" /\ NumStarted >= 2
    /\ \A c \in Started : results[c] # 0
    /\ \E c \in Started : results[c] = 500 /\ pc[c] # "done"
    /\ \E c \in Started : results[c] = 200

\* C14 as stated: run_attack eventually returns its result.
C14_Original == <>(hpc = "done")


\* What holds of the store client in a state.
OneClient ==
    /\ Cardinality(openClients) <= 1
    /\ openClients = IF instance = 0 THEN {} ELSE {instance}
    /\ created <= closes + 1
    /\ \A c \in Calls, d \in Calls :
          (got[c].id # 0 /\ got[d].id # 0 /\ got[c].epoch = got[d].epoch) =>
             got[c].id = got[d].id

\* C19 (SpecClient): in any interleaving of get_instance calls with close
\* calls, all get_instance calls made with the same number of close calls
\* behind them return the same client, and at most one client is open at a
\* time; a close that finds a client closes it and leaves _instance None, the
\* next get_instance then constructs exactly one new client, and a close
\* that finds none changes nothing.
C19_Singleton ==
    [][ /\ OneClient'
        /\ created' # created => (instance = 0 /\ created' = created + 1 /\ instance' = created')
        /\ \A c \in Calls : (got[c].id = 0 /\ got'[c].id # 0) =>
              (got'[c].id = instance' /\ (instance # 0 => instance' = instance))
        /\ (cpc = "closing" /\ cpc' = "idle") => (instance' = 0 /\ instance \notin openClients')
        /\ (cpc = "idle" /\ instance = 0 /\ closes' # closes) =>
              (instance' = 0 /\ created' = created /\ openClients' = openClients) ]_vars

\* C19 witness: two requests got the first client, a close released it, a
\* second close found none, and a third request got a newly constructed
\* second client, the only one open.
C19_Witness ==
    /\ created = 2 /\ closes = 2 /\ instance = 2 /\ openClients = {2}
    /\ got[1].id = 1 /\ got[2].id = 1 /\ got[3].id = 2 /\ got[3].epoch = 2


\* C15 as stated (SpecPool): never more than max_connections connections
\* are in use, and a request that needs a connection while max_connections
\* are in use waits for one: none is answered with an error for the lack of
\* a connection.
C15_Original ==
    /\ Cardinality(holders) <= MaxConnections
    /\ \A c \in Purchases : outcome[c] # "raised"


\* C18 as stated (SpecMain): after the second run's reset no SET of an
\* unsafe purchase of the first run is applied, also not for an attempt
\* recorded as 500 on a client-side exception; hence the safe run, with at
\* least as many attempts as the stock and none of them failed, reports
\* successful = INITIAL_STOCK and final_stock = 0.
C18_Original ==
    [][ /\ \A c \in Calls :
              (kind[c] = "unsafe" /\ resets = 2) => ~(pc[c] = "sleep" /\ pc'[c] = "done")
        /\ ( /\ hpc = "gather" /\ hpc' = "done"
             /\ Cardinality({ c \in Calls : kind[c] = "safe" }) >= baseline
             /\ \A c \in Calls : kind[c] = "safe" => results[c] \in {200, 400} ) =>
              (report'.successful = baseline /\ report'.final_stock = 0) ]_vars

=============================================================================
